---- MODULE Spec2Model ----
(***************************************************************************)
(* A model of mp4_scanner.c: the big-endian readers, find_atom,            *)
(* get_mp4_duration and scan_directory.                                    *)
(*                                                                         *)
(* A file is a sequence of bytes (0..255).  uint32_t / uint64_t / long     *)
(* values and the stream position are kept exact as four 16-bit limbs,     *)
(* most significant first, because a box size of 0 makes the code compute  *)
(* 2^32 - 8, which no single TLC integer holds.                            *)
(***************************************************************************)
EXTENDS Integers, Sequences, FiniteSets, TLC

VARIABLES
    longBits,   \* width of the build's `long` (fseek's offset type): 64 on LP64, 32 on Windows/ILP32
    file,       \* the bytes of the file get_mp4_duration is called on
    pc,         \* position inside get_mp4_duration
    handle,     \* FILE *file: "none" | "open" | "closed"
    nClosed,    \* number of fclose calls made
    pos,        \* stream position of the FILE (wide integer)
    eofFlag,    \* the FILE's end-of-file indicator
    moov,       \* moov_size / moov_pos once find_atom has set them
    mvhd,       \* mvhd_size / mvhd_pos once find_atom has set them
    decoded,    \* version / timescale / duration as read at lines 155-173
    result,     \* MP4Duration result
    passes,     \* passes of find_atom's loop made by the current call
    tree,       \* the directory tree scan_directory walks
    verbose,    \* opts->verbose
    stack,      \* the scan_directory call frames, innermost last
    stats,      \* Stats
    events,     \* the summary lines printed so far, in order
    lastStep    \* which statement of the walker ran last

pvars == <<longBits, file, pc, handle, nClosed, pos, eofFlag, moov, mvhd, decoded, result, passes>>
wvars == <<tree, verbose, stack, stats, events, lastStep>>
vars == <<longBits, file, pc, handle, nClosed, pos, eofFlag, moov, mvhd, decoded, result, passes,
          tree, verbose, stack, stats, events, lastStep>>

(***************************************************************************)
(* Wide integers: <<l1, l2, l3, l4>> stands for                            *)
(* l1*2^48 + l2*2^32 + l3*2^16 + l4.                                       *)
(***************************************************************************)
Limb == 256 * 256

Wide(n) == <<0, 0, n \div Limb, n % Limb>>

W0 == Wide(0)

IsSmall(w) == w[1] = 0 /\ w[2] = 0 /\ w[3] < 32768

Small(w) == w[3] * Limb + w[4]

\* Carry (or borrow) from each limb into the next, modulo 2^64.
Carry1(x1, x2, l3, l4) == <<(x1 + (x2 \div Limb)) % Limb, x2 % Limb, l3, l4>>

Carry2(x1, x2, x3, l4) == Carry1(x1, x2 + (x3 \div Limb), x3 % Limb, l4)

Carry3(x1, x2, x3, x4) == Carry2(x1, x2, x3 + (x4 \div Limb), x4 % Limb)

\* a + b (mod 2^64)
AddW(a, b) == Carry3(a[1] + b[1], a[2] + b[2], a[3] + b[3], a[4] + b[4])

\* a - b (mod 2^64)
SubW(a, b) == Carry3(a[1] - b[1], a[2] - b[2], a[3] - b[3], a[4] - b[4])

LessW(a, b) ==
    \/ a[1] < b[1]
    \/ a[1] = b[1] /\ a[2] < b[2]
    \/ a[1] = b[1] /\ a[2] = b[2] /\ a[3] < b[3]
    \/ a[1] = b[1] /\ a[2] = b[2] /\ a[3] = b[3] /\ a[4] < b[4]

\* (uint32_t)w
Trunc32(w) == <<0, 0, w[3], w[4]>>

\* (buf[0] << 24) | (buf[1] << 16) | (buf[2] << 8) | buf[3]
\* (for buf[0] >= 128 the shift overflows int; every build yields the
\* unsigned value on conversion to uint32_t, which is what is modelled)
FromBytes(buf) == <<0, 0, buf[1] * 256 + buf[2], buf[3] * 256 + buf[4]>>

\* (high << 32) | low, for high and low below 2^32
Join64(high, low) == <<high[3], high[4], low[3], low[4]>>

(***************************************************************************)
(* stdio on a regular file: fread, fseek.  A stream is the file's bytes f, *)
(* the position p and the end-of-file indicator e.                         *)
(***************************************************************************)
Avail(f, p) == IF IsSmall(p) /\ Small(p) < Len(f) THEN Len(f) - Small(p) ELSE 0

Min(a, b) == IF a < b THEN a ELSE b

\* fread delivering k of the n bytes asked for.
Delivered(f, p, e, n, k) ==
    [got |-> k,
     buf |-> IF k = 0 THEN <<>> ELSE SubSeq(f, Small(p) + 1, Small(p) + k),
     pos |-> AddW(p, Wide(k)),
     eof |-> (e \/ k < n)]

\* fread(buf, 1, n, file): a short read takes what is left and sets the
\* end-of-file indicator.
fread(f, p, e, n) == Delivered(f, p, e, n, Min(Avail(f, p), n))

\* The value the unsigned 32-bit expression u takes as fseek's `long offset`.
\* With a 64-bit long it is u; with a 32-bit long, values from 2^31 up come
\* out negative (u - 2^32).
ToLong(u, lb) ==
    IF lb = 32 /\ u[3] >= 32768
    THEN [neg |-> TRUE, mag |-> Trunc32(SubW(W0, u))]
    ELSE [neg |-> FALSE, mag |-> u]

Forward(n) == [neg |-> FALSE, mag |-> Wide(n)]

\* fseek(file, off, SEEK_CUR): fails when the new position would be
\* negative; otherwise moves (also beyond the end of the file) and clears
\* the end-of-file indicator.
fseek(p, e, off) ==
    IF off.neg
    THEN IF LessW(p, off.mag)
         THEN [ok |-> FALSE, pos |-> p, eof |-> e]
         ELSE [ok |-> TRUE, pos |-> SubW(p, off.mag), eof |-> FALSE]
    ELSE [ok |-> TRUE, pos |-> AddW(p, off.mag), eof |-> FALSE]

(***************************************************************************)
(* read_u32_be, read_u64_be                                                *)
(***************************************************************************)
\* if (fread(buf, 1, 4, file) != 4) return 0; return buf[0] << 24 | ...
U32Value(r) ==
    [val |-> IF r.got # 4 THEN W0 ELSE FromBytes(r.buf), pos |-> r.pos, eof |-> r.eof]

read_u32_be(f, p, e) == U32Value(fread(f, p, e, 4))

\* return (high << 32) | low;
U64Value(high, low) == [val |-> Join64(high.val, low.val), pos |-> low.pos, eof |-> low.eof]

\* uint64_t low = read_u32_be(file);
U64Low(f, high) == U64Value(high, read_u32_be(f, high.pos, high.eof))

read_u64_be(f, p, e) == U64Low(f, read_u32_be(f, p, e))

(***************************************************************************)
(* find_atom: one pass of its while loop, from the loop test to the        *)
(* return, the break or the end of the body.  A pass yields                *)
(* out: "found" (return 1), "notfound" (return 0) or "continue", with the  *)
(* stream as the pass leaves it and the box size it read.                  *)
(***************************************************************************)
MOOV == <<109, 111, 111, 118>>

MVHD == <<109, 118, 104, 100>>

Outcome(out, p, e, size) == [out |-> out, pos |-> p, eof |-> e, size |-> size]

\* box_size - 8, computed in unsigned 32-bit arithmetic
SkipDistance(box_size) == Trunc32(SubW(box_size, Wide(8)))

\* box_size = (uint32_t)read_u64_be(file)
LargeBoxSize(l) == [size |-> Trunc32(l.val), pos |-> l.pos, eof |-> l.eof]

\* if (fseek(file, box_size - 8, SEEK_CUR) != 0) break;
PassSkip(box_size, k) ==
    IF k.ok
    THEN Outcome("continue", k.pos, k.eof, box_size)
    ELSE Outcome("notfound", k.pos, k.eof, box_size)

\* The strncmp test: box_type against atom_type, with the box size box.size
\* and the stream at box.pos.
PassBox(box_type, box, atom_type, lb) ==
    IF box_type = atom_type
    THEN Outcome("found", box.pos, box.eof, box.size)
    ELSE PassSkip(box.size, fseek(box.pos, box.eof, ToLong(SkipDistance(box.size), lb)))

\* The type read t and the size==1 test, after the size read s.
PassHeader(f, s, t, atom_type, lb) ==
    IF t.got # 4
    THEN Outcome("notfound", t.pos, t.eof, s.val)
    ELSE IF s.val = Wide(1)
    THEN PassBox(t.buf, LargeBoxSize(read_u64_be(f, t.pos, t.eof)), atom_type, lb)
    ELSE PassBox(t.buf, [size |-> s.val, pos |-> t.pos, eof |-> t.eof], atom_type, lb)

\* fread(box_type, 1, 4, file) after box_size = read_u32_be(file)
PassType(f, s, atom_type, lb) == PassHeader(f, s, fread(f, s.pos, s.eof, 4), atom_type, lb)

FindAtomPass(f, p, e, atom_type, lb) ==
    IF e
    THEN Outcome("notfound", p, e, W0)
    ELSE PassType(f, read_u32_be(f, p, e), atom_type, lb)

(***************************************************************************)
(* get_mp4_duration, one action per call it makes.                         *)
(***************************************************************************)
\* The most loop passes one find_atom call is followed for.
MaxPasses == 6

NoAtom == [size |-> W0, pos |-> W0, set |-> FALSE]

NoFields == [version |-> 0, timescale |-> W0, duration |-> W0, set |-> FALSE]

\* MP4Duration result = {0, 0}; duration_seconds is kept as the exact
\* quotient num / den.
NoResult == [found |-> FALSE, num |-> W0, den |-> Wide(1)]

\* The values an uninitialised `uint8_t version` may hold; the code only
\* tests version == 1.
Indeterminate == {0, 1, 255}

\* A return that leaves the file open.
ReturnWithoutClose(r) ==
    /\ UNCHANGED <<handle, nClosed>>
    /\ result' = r
    /\ pc' = "done"

\* fclose(file); return result;
CloseAndReturn(r) ==
    /\ handle' = "closed"
    /\ nClosed' = nClosed + 1
    /\ result' = r
    /\ pc' = "done"

\* FILE *file = fopen(filename, "rb"); if (!file) return result;
Fopen ==
    /\ pc = "start"
    /\ \E ok \in BOOLEAN :
        IF ok
        THEN /\ handle' = "open"
             /\ pc' = "find_moov"
        ELSE /\ handle' = "none"
             /\ pc' = "done"
    /\ pos' = W0
    /\ eofFlag' = FALSE
    /\ result' = NoResult
    /\ UNCHANGED <<longBits, file, nClosed, moov, mvhd, decoded, passes>>
    /\ UNCHANGED wvars

\* if (!find_atom(file, "moov", &moov_size, &moov_pos)) { fclose(file); return result; }
FindMoov ==
    /\ pc = "find_moov"
    /\ passes < MaxPasses
    /\ LET r == FindAtomPass(file, pos, eofFlag, MOOV, longBits)
       IN  /\ pos' = r.pos
           /\ eofFlag' = r.eof
           /\ IF r.out = "continue"
              THEN /\ passes' = passes + 1
                   /\ UNCHANGED <<pc, handle, nClosed, result, moov>>
              ELSE IF r.out = "found"
              THEN /\ moov' = [size |-> r.size, pos |-> r.pos, set |-> TRUE]
                   /\ pc' = "find_mvhd"
                   /\ passes' = 0
                   /\ UNCHANGED <<handle, nClosed, result>>
              ELSE /\ CloseAndReturn(result)
                   /\ UNCHANGED <<moov, passes>>
    /\ UNCHANGED <<longBits, file, mvhd, decoded>>
    /\ UNCHANGED wvars

\* if (!find_atom(file, "mvhd", &mvhd_size, &mvhd_pos)) { fclose(file); return result; }
FindMvhd ==
    /\ pc = "find_mvhd"
    /\ passes < MaxPasses
    /\ LET r == FindAtomPass(file, pos, eofFlag, MVHD, longBits)
       IN  /\ pos' = r.pos
           /\ eofFlag' = r.eof
           /\ IF r.out = "continue"
              THEN /\ passes' = passes + 1
                   /\ UNCHANGED <<pc, handle, nClosed, result, mvhd>>
              ELSE IF r.out = "found"
              THEN /\ mvhd' = [size |-> r.size, pos |-> r.pos, set |-> TRUE]
                   /\ pc' = "decode"
                   /\ passes' = 0
                   /\ UNCHANGED <<handle, nClosed, result>>
              ELSE /\ CloseAndReturn(result)
                   /\ UNCHANGED <<mvhd, passes>>
    /\ UNCHANGED <<longBits, file, moov, decoded>>
    /\ UNCHANGED wvars

\* The test with timescale >= 0, which an unsigned value always passes.
AnyTimescale(timescale) == TRUE

\* if (timescale > 0)
HasTimescale(timescale) == timescale # W0

\* duration = read_u64_be(file) or read_u32_be(file), after the timescale
\* read ts.
ReadTimes(f, version, ts) ==
    [version |-> version, timescale |-> ts.val,
     dur |-> IF version = 1
             THEN read_u64_be(f, ts.pos, ts.eof)
             ELSE read_u32_be(f, ts.pos, ts.eof)]

\* timescale = read_u32_be(file), with the stream at k after the seeks.
ReadTimescale(f, version, k) == ReadTimes(f, version, read_u32_be(f, k.pos, k.eof))

\* fseek(file, 8 + 8, SEEK_CUR) or fseek(file, 4 + 4, SEEK_CUR), after
\* fseek(file, 3, SEEK_CUR) left the stream at k.
SkipTimes(f, version, k) ==
    ReadTimescale(f, version,
                  fseek(k.pos, k.eof, IF version = 1 THEN Forward(8 + 8) ELSE Forward(4 + 4)))

\* fread(&version, 1, 1, file): uv is what `version` holds when the read
\* delivers nothing.
VersionOf(f, v, uv) ==
    SkipTimes(f, IF v.got = 1 THEN v.buf[1] ELSE uv, fseek(v.pos, v.eof, Forward(3)))

ReadFields(f, p, e, uv) == VersionOf(f, fread(f, p, e, 1), uv)

\* Lines 175-182.
MakeResult(timescale, duration) ==
    IF HasTimescale(timescale)
    THEN [found |-> TRUE, num |-> duration, den |-> timescale]
    ELSE NoResult

\* The rest of get_mp4_duration once the fields r are read.
Finish(r) ==
    /\ decoded' = [version |-> r.version, timescale |-> r.timescale,
                   duration |-> r.dur.val, set |-> TRUE]
    /\ pos' = r.dur.pos
    /\ eofFlag' = r.dur.eof
    /\ CloseAndReturn(MakeResult(r.timescale, r.dur.val))

Decode ==
    /\ pc = "decode"
    /\ \E uv \in Indeterminate : Finish(ReadFields(file, pos, eofFlag, uv))
    /\ UNCHANGED <<longBits, file, moov, mvhd, passes>>
    /\ UNCHANGED wvars

(***************************************************************************)
(* The byte streams get_mp4_duration is run on.                            *)
(***************************************************************************)
\* Filler boxes carry up to MaxPad 4-byte words of payload.
MaxPad == 1

\* mvhd timescales range over 0..MaxTimescale.
MaxTimescale == 2

FREE == <<102, 114, 101, 101>>

U32Bytes(n) == <<(n \div (256 * 256 * 256)) % 256, (n \div (256 * 256)) % 256, (n \div 256) % 256, n % 256>>

U64Bytes(hi, lo) == U32Bytes(hi) \o U32Bytes(lo)

Fill(n, b) == [i \in 1..n |-> b]

\* A box in the 32-bit form and in the large-box form (size field 1, then
\* the 64-bit size).
Box32(size, tag, payload) == U32Bytes(size) \o tag \o payload

Box64(size, tag, payload) == U32Bytes(1) \o tag \o U64Bytes(0, size) \o payload

\* Payload words: a run of 0x00 or of 'm', the latter so that a scan landing
\* inside a payload reads a non-zero size.
PadBytes == {0, 109}

WellFormedFillers ==
    {Box32(8 + 4 * k, FREE, Fill(4 * k, b)) : k \in 0..MaxPad, b \in PadBytes}
    \cup {Box64(16 + 4 * k, FREE, Fill(4 * k, b)) : k \in 0..MaxPad, b \in PadBytes}

\* Boxes whose size field is smaller than the header, or points beyond the
\* end of the file.
MalformedFillers ==
    {Box32(0, FREE, <<>>), Box32(4, FREE, <<>>), Box32(7, FREE, <<>>),
     Box64(0, FREE, <<>>), Box64(8, FREE, <<>>), Box64(12, FREE, <<>>),
     Box32(4000, FREE, <<>>),
     <<255, 255, 255, 240>> \o FREE,
     <<128, 0, 0, 8>> \o FREE,
     U32Bytes(1) \o FREE \o U64Bytes(1, 16)}

Fillers == WellFormedFillers \cup MalformedFillers

MvhdBody0(t, d) == <<0, 0, 0, 0>> \o Fill(8, 0) \o U32Bytes(t) \o U32Bytes(d)

MvhdBody1(t, dhi, dlo) == <<1, 0, 0, 0>> \o Fill(16, 0) \o U32Bytes(t) \o U64Bytes(dhi, dlo)

MvhdBodies ==
    {MvhdBody0(t, d) : t \in 0..MaxTimescale, d \in {0, 7}}
    \cup {MvhdBody1(t, dhi, 7) : t \in 0..MaxTimescale, dhi \in {0, 1}}
    \cup {<<2, 0, 0, 0>> \o Fill(8, 0) \o U32Bytes(1) \o U32Bytes(7)}

MvhdBoxes == {Box32(8 + Len(b), MVHD, b) : b \in MvhdBodies}

\* moov boxes: at most one filler, then an mvhd box or nothing; in the
\* large-box form, an mvhd box or nothing.
MoovBoxes ==
    {Box32(8 + Len(p \o m), MOOV, p \o m) : p \in {<<>>} \cup Fillers, m \in {<<>>} \cup MvhdBoxes}
    \cup {Box64(16 + Len(m), MOOV, m) : m \in {<<>>} \cup MvhdBoxes}

\* What may follow the moov box at the top level.
Trailers == {<<>>, Box32(8, FREE, <<>>), Box32(28, MVHD, MvhdBody0(1, 7))}

\* What may precede it: nothing, one filler, or two well-formed fillers.
Leaders ==
    {<<>>} \cup Fillers \cup {Box32(8, FREE, <<>>) \o Box32(12, FREE, Fill(4, 0))}

\* A complete file: leader, moov box or none, trailer.
CompleteFile(f) ==
    \E p \in Leaders, m \in {<<>>} \cup MoovBoxes, t \in Trailers : f = p \o m \o t

\* Files cut short: every proper prefix of a few complete files.
CutBases ==
    {p \o Box32(8 + Len(m), MOOV, m) :
        p \in {<<>>, Box32(8, FREE, <<>>)},
        m \in {Box32(28, MVHD, MvhdBody0(1, 7)), Box32(28, MVHD, MvhdBody0(2, 7)),
               Box32(40, MVHD, MvhdBody1(1, 1, 7)), Box32(40, MVHD, MvhdBody1(2, 0, 7))}}

CutFile(f) == \E g \in CutBases : \E n \in 0..(Len(g) - 1) : f = SubSeq(g, 1, n)

LongWidths == {32, 64}

InitParser ==
    /\ pc = "start"
    /\ handle = "none"
    /\ nClosed = 0
    /\ pos = W0
    /\ eofFlag = FALSE
    /\ moov = NoAtom
    /\ mvhd = NoAtom
    /\ decoded = NoFields
    /\ result = NoResult
    /\ passes = 0

IdleWalker ==
    /\ tree = <<>>
    /\ verbose = FALSE
    /\ stack = <<>>
    /\ stats = [total_files |-> 0, total_folders_with_mp4 |-> 0, total_duration_seconds |-> <<0, 1>>]
    /\ events = <<>>
    /\ lastStep = "idle"

Init ==
    /\ longBits \in LongWidths
    /\ (CompleteFile(file) \/ CutFile(file))
    /\ InitParser
    /\ IdleWalker

Next == Fopen \/ FindMoov \/ FindMvhd \/ Decode

Spec == Init /\ [][Next]_vars

(***************************************************************************)
(* get_mp4_duration as one call, for scan_directory: the same passes run   *)
(* to the end.  `returns` is FALSE when find_atom is still looping after   *)
(* MaxPasses passes.                                                       *)
(***************************************************************************)
RECURSIVE find_atom(_, _, _, _, _, _)

AfterPass(f, atom_type, lb, fuel, r) ==
    IF r.out # "continue"
    THEN r
    ELSE IF fuel = 0
    THEN Outcome("looping", r.pos, r.eof, r.size)
    ELSE find_atom(f, r.pos, r.eof, atom_type, lb, fuel - 1)

find_atom(f, p, e, atom_type, lb, fuel) ==
    AfterPass(f, atom_type, lb, fuel, FindAtomPass(f, p, e, atom_type, lb))

Returns(r) == [returns |-> TRUE, result |-> r]

Looping == [returns |-> FALSE, result |-> NoResult]

FieldsResult(r) == Returns(MakeResult(r.timescale, r.dur.val))

AfterMvhd(f, uv, h) ==
    IF h.out = "found"
    THEN FieldsResult(ReadFields(f, h.pos, h.eof, uv))
    ELSE IF h.out = "looping" THEN Looping ELSE Returns(NoResult)

AfterMoov(f, lb, uv, m) ==
    IF m.out = "found"
    THEN AfterMvhd(f, uv, find_atom(f, m.pos, m.eof, MVHD, lb, MaxPasses))
    ELSE IF m.out = "looping" THEN Looping ELSE Returns(NoResult)

\* get_mp4_duration on a file of bytes f that fopen can (canOpen) or cannot open.
get_mp4_duration(f, canOpen, lb, uv) ==
    IF ~canOpen
    THEN Returns(NoResult)
    ELSE AfterMoov(f, lb, uv, find_atom(f, W0, FALSE, MOOV, lb, MaxPasses))

(***************************************************************************)
(* double values are kept as exact fractions <<n, d>> in lowest terms.     *)
(***************************************************************************)
RECURSIVE Gcd(_, _)

Gcd(a, b) == IF b = 0 THEN a ELSE Gcd(b, a % b)

Fraction(n, d) == <<n \div Gcd(n, d), d \div Gcd(n, d)>>

AddQ(x, y) == Fraction(x[1] * y[2] + y[1] * x[2], x[2] * y[2])

LeqQ(x, y) == x[1] * y[2] <= y[1] * x[2]

\* result.duration_seconds = duration / timescale
Seconds(r) == Fraction(Small(r.num), Small(r.den))

(***************************************************************************)
(* scan_directory.  The tree gives, for each directory path, whether       *)
(* opendir succeeds and what readdir returns (in no fixed order): entries  *)
(* with a name (a sequence of characters), whether stat succeeds, the      *)
(* kind ("dir", "reg", "other") and, for a regular file, its bytes and     *)
(* whether fopen succeeds.  A directory entry's path is path \o <<name>>.  *)
(***************************************************************************)
Dot == <<".">>

DotDot == <<".", ".">>

Lower(c) == IF c = "M" THEN "m" ELSE IF c = "P" THEN "p" ELSE c

\* strrchr(entry->d_name, '.'): the index of the last '.', or 0
RECURSIVE LastDot(_, _)

LastDot(name, i) == IF i = 0 THEN 0 ELSE IF name[i] = "." THEN i ELSE LastDot(name, i - 1)

\* The comparison made with strcmp, which tells the cases apart.
SameExtCaseSensitive(ext) == ext = <<".", "m", "p", "4">>

\* strcasecmp(ext, ".mp4") == 0
SameExt(ext) == [i \in 1..Len(ext) |-> Lower(ext[i])] = <<".", "m", "p", "4">>

\* ext && strcasecmp(ext, ".mp4") == 0
IsMp4Name(name) ==
    /\ LastDot(name, Len(name)) # 0
    /\ SameExt(SubSeq(name, LastDot(name, Len(name)), Len(name)))

\* A walker that counts every *.mp4 file, found or not.
CountedAlways(d) == TRUE

\* if (d.found)
Counted(d) == d.found

\* The test with local_mp4_count >= 0.
HasLocalMp4Always(local_mp4_count) == local_mp4_count >= 0

\* if (local_mp4_count > 0)
HasLocalMp4(local_mp4_count) == local_mp4_count > 0

RootPath == << <<"r">> >>

NoEntry == [name |-> <<>>]

Frame(path) ==
    [path |-> path, todo |-> tree[path].entries, local_mp4_count |-> 0,
     local_duration |-> <<0, 1>>, entry |-> NoEntry, d |-> NoResult, called |-> FALSE]

Top == stack[Len(stack)]

SetTop(fr) == [stack EXCEPT ![Len(stack)] = fr]

\* scan_directory(path, ...): DIR *dir = opendir(path); if (!dir) return;
Enter(stk, path) == IF tree[path].canOpen THEN Append(stk, Frame(path)) ELSE stk

\* main: scan_directory(target_dir, &stats, &opts)
ScanRoot ==
    /\ lastStep = "idle"
    /\ stack' = Enter(stack, RootPath)
    /\ lastStep' = IF tree[RootPath].canOpen THEN "opendir" ELSE "opendir_failed"
    /\ UNCHANGED <<tree, verbose, stats, events>>
    /\ UNCHANGED pvars

\* One readdir and the body of the loop up to the call of
\* get_mp4_duration: "." and ".." and entries stat fails on are passed
\* over, a directory is scanned recursively, a regular file named *.mp4
\* becomes the file to extract from.
ReadEntry ==
    /\ stack # <<>>
    /\ Top.entry = NoEntry
    /\ \E en \in Top.todo :
        LET rest == [Top EXCEPT !.todo = Top.todo \ {en}]
        IN  IF en.name = Dot \/ en.name = DotDot \/ ~en.statOk
            THEN /\ stack' = SetTop(rest)
                 /\ lastStep' = "skip"
            ELSE IF en.kind = "dir"
            THEN /\ stack' = Enter(SetTop(rest), Top.path \o <<en.name>>)
                 /\ lastStep' = IF tree[Top.path \o <<en.name>>].canOpen
                                THEN "opendir" ELSE "opendir_failed"
            ELSE IF en.kind = "reg" /\ IsMp4Name(en.name)
            THEN /\ stack' = SetTop([rest EXCEPT !.entry = en])
                 /\ lastStep' = "candidate"
            ELSE /\ stack' = SetTop(rest)
                 /\ lastStep' = "other"
    /\ UNCHANGED <<tree, verbose, stats, events>>
    /\ UNCHANGED pvars

\* MP4Duration d = get_mp4_duration(full_path);
Extract ==
    /\ stack # <<>>
    /\ Top.entry # NoEntry
    /\ ~Top.called
    /\ \E uv \in Indeterminate :
        LET g == get_mp4_duration(Top.entry.bytes, Top.entry.canOpen, longBits, uv)
        IN  /\ g.returns
            /\ stack' = SetTop([Top EXCEPT !.d = g.result, !.called = TRUE])
    /\ lastStep' = "extract"
    /\ UNCHANGED <<tree, verbose, stats, events>>
    /\ UNCHANGED pvars

\* if (d.found) { stats->total_files++; local_mp4_count++; ... }
Aggregate ==
    /\ stack # <<>>
    /\ Top.called
    /\ IF Counted(Top.d)
       THEN /\ stats' = [stats EXCEPT !.total_files = @ + 1,
                                      !.total_duration_seconds = AddQ(@, Seconds(Top.d))]
            /\ stack' = SetTop([Top EXCEPT !.local_mp4_count = @ + 1,
                                           !.local_duration = AddQ(@, Seconds(Top.d)),
                                           !.entry = NoEntry, !.called = FALSE])
       ELSE /\ stats' = stats
            /\ stack' = SetTop([Top EXCEPT !.entry = NoEntry, !.called = FALSE])
    /\ lastStep' = "aggregate"
    /\ UNCHANGED <<tree, verbose, events>>
    /\ UNCHANGED pvars

\* readdir returned NULL: the summary of the directory, closedir, return.
LeaveDir ==
    /\ stack # <<>>
    /\ Top.entry = NoEntry
    /\ Top.todo = {}
    /\ IF HasLocalMp4(Top.local_mp4_count)
       THEN /\ stats' = [stats EXCEPT !.total_folders_with_mp4 = @ + 1]
            /\ events' = IF verbose
                         THEN Append(events, [path |-> Top.path,
                                              local_duration |-> Top.local_duration])
                         ELSE events
       ELSE UNCHANGED <<stats, events>>
    /\ stack' = SubSeq(stack, 1, Len(stack) - 1)
    /\ lastStep' = "closedir"
    /\ UNCHANGED <<tree, verbose>>
    /\ UNCHANGED pvars

(***************************************************************************)
(* The trees scan_directory is run on.                                     *)
(***************************************************************************)
Reg(name, bytes) == [name |-> name, statOk |-> TRUE, kind |-> "reg", bytes |-> bytes, canOpen |-> TRUE]

Dir(name) == [name |-> name, statOk |-> TRUE, kind |-> "dir", bytes |-> <<>>, canOpen |-> TRUE]

Dots == {Dir(Dot), Dir(DotDot)}

Folder(entries) == [canOpen |-> TRUE, entries |-> Dots \cup entries]

Mp4File(timescale, duration) == Box32(36, MOOV, Box32(28, MVHD, MvhdBody0(timescale, duration)))

NoMoovFile == Box32(8, FREE, <<>>) \o Box32(12, FREE, Fill(4, 0))

Sub == <<"s", "u", "b">>

Deep == <<"d", "e", "e", "p">>

Locked == <<"l", "o", "c", "k">>

\* root/{a.mp4 10 s, b.txt, sub/{c.mp4 5 s, d.mp4 without moov}}
TreeA ==
    (RootPath :> Folder({Reg(<<"a", ".", "m", "p", "4">>, Mp4File(1, 10)),
                         Reg(<<"b", ".", "t", "x", "t">>, Mp4File(1, 10)),
                         Dir(Sub)}))
    @@ (RootPath \o <<Sub>> :> Folder({Reg(<<"c", ".", "m", "p", "4">>, Mp4File(2, 10)),
                                       Reg(<<"d", ".", "m", "p", "4">>, NoMoovFile)}))

\* Names that differ in case or only resemble .mp4, an entry stat fails
\* on, a file without moov.
TreeB ==
    (RootPath :> Folder({Reg(<<"X", ".", "M", "P", "4">>, Mp4File(2, 7)),
                         Reg(<<"x", ".", "m", "p", "4", "x">>, Mp4File(1, 10)),
                         [Reg(<<"g", ".", "m", "p", "4">>, Mp4File(1, 10)) EXCEPT !.statOk = FALSE],
                         Reg(<<"d", ".", "m", "p", "4">>, NoMoovFile)}))

\* A name without a dot, a file fopen fails on, a directory opendir fails
\* on, a file cut inside its duration field, a FIFO.
TreeE ==
    (RootPath :> Folder({Dir(Sub)}))
    @@ (RootPath \o <<Sub>> :> Folder({Reg(<<"m", "p", "4">>, Mp4File(1, 10)),
                                       [Reg(<<"n", ".", "m", "p", "4">>, Mp4File(1, 10)) EXCEPT !.canOpen = FALSE],
                                       Dir(Locked),
                                       Dir(Deep)}))
    @@ (RootPath \o <<Sub, Locked>> :>
            [canOpen |-> FALSE, entries |-> Dots \cup {Reg(<<"h", ".", "m", "p", "4">>, Mp4File(1, 10))}])
    @@ (RootPath \o <<Sub, Deep>> :>
            Folder({Reg(<<"f", ".", "M", "p", "4">>, SubSeq(Mp4File(1, 10), 1, 34)),
                    [Reg(<<"p", ".", "m", "p", "4">>, Mp4File(1, 10)) EXCEPT !.kind = "other"]}))

\* Files only below the root: root/sub/{c.mp4, deep/{A.a.MP4, .mp4}}
TreeC ==
    (RootPath :> Folder({Dir(Sub)}))
    @@ (RootPath \o <<Sub>> :> Folder({Reg(<<"c", ".", "m", "p", "4">>, Mp4File(2, 10)), Dir(Deep)}))
    @@ (RootPath \o <<Sub, Deep>> :> Folder({Reg(<<"A", ".", "a", ".", "M", "P", "4">>, Mp4File(2, 1)),
                                             Reg(<<".", "m", "p", "4">>, Mp4File(1, 10))}))

\* A root opendir fails on.
TreeD == (RootPath :> [canOpen |-> FALSE, entries |-> Dots])

Trees == {TreeA, TreeB, TreeC, TreeD, TreeE}

IdleParser ==
    /\ file = <<>>
    /\ pc = "idle"
    /\ handle = "none"
    /\ nClosed = 0
    /\ pos = W0
    /\ eofFlag = FALSE
    /\ moov = NoAtom
    /\ mvhd = NoAtom
    /\ decoded = NoFields
    /\ result = NoResult
    /\ passes = 0

InitWalk ==
    /\ longBits \in LongWidths
    /\ IdleParser
    /\ tree \in Trees
    /\ verbose \in BOOLEAN
    /\ stack = <<>>
    /\ stats = [total_files |-> 0, total_folders_with_mp4 |-> 0, total_duration_seconds |-> <<0, 1>>]
    /\ events = <<>>
    /\ lastStep = "idle"

NextWalk == ScanRoot \/ ReadEntry \/ Extract \/ Aggregate \/ LeaveDir

SpecWalk == InitWalk /\ [][NextWalk]_vars

(***************************************************************************)
(* The box layout the claims speak of, read off the bytes independently of *)
(* find_atom: a box at offset o of the extent ending at `end` is well      *)
(* formed when its header is complete, its size is at least its header     *)
(* (8 bytes, or 16 in the large-box form) and it ends within the extent.   *)
(***************************************************************************)
BadHeader == [ok |-> FALSE, tag |-> <<>>, hdr |-> 0, size |-> 0]

LayoutSized(f, o, end, hdr, size) ==
    IF IsSmall(size) /\ Small(size) >= hdr /\ o + Small(size) <= end
    THEN [ok |-> TRUE, tag |-> SubSeq(f, o + 5, o + 8), hdr |-> hdr, size |-> Small(size)]
    ELSE BadHeader

LayoutHeader(f, o, end) ==
    IF o + 8 > end
    THEN BadHeader
    ELSE IF FromBytes(SubSeq(f, o + 1, o + 4)) # Wide(1)
    THEN LayoutSized(f, o, end, 8, FromBytes(SubSeq(f, o + 1, o + 4)))
    ELSE IF o + 16 > end
    THEN BadHeader
    ELSE LayoutSized(f, o, end, 16,
                     Join64(FromBytes(SubSeq(f, o + 9, o + 12)), FromBytes(SubSeq(f, o + 13, o + 16))))

RECURSIVE LayoutFind(_, _, _, _)

\* The first box tagged `tag` among the well-formed siblings from offset o:
\* found, with its payload's extent; or not found, `whole` telling whether
\* the siblings fill the extent exactly.
LayoutStep(f, o, end, tag, h) ==
    IF ~h.ok
    THEN [found |-> FALSE, payload |-> 0, end |-> 0, whole |-> (o = end)]
    ELSE IF h.tag = tag
    THEN [found |-> TRUE, payload |-> o + h.hdr, end |-> o + h.size, whole |-> FALSE]
    ELSE LayoutFind(f, o + h.size, end, tag)

LayoutFind(f, o, end, tag) == LayoutStep(f, o, end, tag, LayoutHeader(f, o, end))

LayoutMoov(f) == LayoutFind(f, 0, Len(f), MOOV)

LayoutMvhd(f) == LayoutFind(f, LayoutMoov(f).payload, LayoutMoov(f).end, MVHD)

\* The mvhd fields at payload offset p: version, then timescale and
\* duration after 4 + 8 bytes (version 0) or 4 + 16 bytes (version 1).
LayoutFields(f, p, end) ==
    IF p + 1 > end
    THEN [ok |-> FALSE, timescale |-> W0, duration |-> W0]
    ELSE IF f[p + 1] = 1
    THEN [ok |-> p + 32 <= end,
          timescale |-> IF p + 32 <= end THEN FromBytes(SubSeq(f, p + 21, p + 24)) ELSE W0,
          duration |-> IF p + 32 <= end
                       THEN Join64(FromBytes(SubSeq(f, p + 25, p + 28)), FromBytes(SubSeq(f, p + 29, p + 32)))
                       ELSE W0]
    ELSE [ok |-> p + 20 <= end,
          timescale |-> IF p + 20 <= end THEN FromBytes(SubSeq(f, p + 13, p + 16)) ELSE W0,
          duration |-> IF p + 20 <= end THEN FromBytes(SubSeq(f, p + 17, p + 20)) ELSE W0]

MvhdFields(f) == LayoutFields(f, LayoutMvhd(f).payload, LayoutMvhd(f).end)

\* A valid MP4 stream: well-formed siblings up to moov, well-formed
\* siblings inside moov up to mvhd, a complete mvhd with timescale > 0.
ValidMp4(f) ==
    /\ LayoutMoov(f).found
    /\ LayoutMvhd(f).found
    /\ MvhdFields(f).ok
    /\ MvhdFields(f).timescale # W0

Returned == pc = "done" /\ handle # "none"

\* C1: for every valid MP4 stream whose mvhd carries timescale T > 0 and
\* duration D (32-bit for version != 1, 64-bit for version 1), whatever the
\* form of the boxes before moov and before mvhd, get_mp4_duration returns
\* found = true with seconds = D / T.
C1_ValidFileYieldsDuration ==
    (Returned /\ ValidMp4(file)) =>
        /\ result.found
        /\ result.num = MvhdFields(file).duration
        /\ result.den = MvhdFields(file).timescale

Scanning == pc \in {"find_moov", "find_mvhd"}

Target == IF pc = "find_moov" THEN MOOV ELSE MVHD

\* The box header find_atom is about to read at the stream position.
HeaderComplete(n) == ~eofFlag /\ IsSmall(pos) /\ Avail(file, pos) >= n

SizeField == FromBytes(SubSeq(file, Small(pos) + 1, Small(pos) + 4))

TypeField == SubSeq(file, Small(pos) + 5, Small(pos) + 8)

LargeSizeField ==
    Join64(FromBytes(SubSeq(file, Small(pos) + 9, Small(pos) + 12)),
           FromBytes(SubSeq(file, Small(pos) + 13, Small(pos) + 16)))

LargeMismatch ==
    /\ Scanning
    /\ HeaderComplete(16)
    /\ SizeField = Wide(1)
    /\ TypeField # Target

\* C2: a non-matching box in the large-box form, of large size L >= 16, is
\* skipped by L - 16 after its 16-byte header: the next header is read at
\* the box's start offset + L, for every 64-bit L.
C2_LargeSizeGovernsSkip ==
    [][(LargeMismatch /\ ~LessW(LargeSizeField, Wide(16)))
         => (pc' = pc /\ pos' = AddW(pos, LargeSizeField))]_vars

\* C3: no moov among the top-level boxes, or a moov box holding no mvhd
\* within its extent, or a file shorter than one box header, gives
\* found = false, whatever follows the moov box.
NoMoovAtTopLevel(f) == ~LayoutMoov(f).found /\ LayoutMoov(f).whole

MoovWithoutMvhd(f) == LayoutMoov(f).found /\ ~LayoutMvhd(f).found /\ LayoutMvhd(f).whole

C3_MissingBoxMeansNotFound ==
    (Returned /\ (NoMoovAtTopLevel(file) \/ MoovWithoutMvhd(file) \/ Len(file) < 8))
        => ~result.found

\* C4: a stream that ends before the last byte of the mvhd duration field
\* gives found = false.
C4_TruncatedMeansNotFound == (Returned /\ CutFile(file)) => ~result.found

\* C7: every handle get_mp4_duration opens is closed exactly once before
\* it returns, on every exit path; none is closed twice.
C7_HandleReleasedOnce ==
    /\ pc = "done" => handle \in {"none", "closed"}
    /\ handle \in {"none", "open"} => nClosed = 0
    /\ handle = "closed" => nClosed = 1

C7_Witness ==
    /\ pc = "done"
    /\ handle = "closed"
    /\ nClosed = 1
    /\ moov.set
    /\ ~mvhd.set

\* C8: a timescale of 0 read from mvhd gives found = false, for every
\* duration and every version byte, and the result is left as initialised.
C8_ZeroTimescaleNotFound ==
    (pc = "done" /\ decoded.set /\ decoded.timescale = W0) => result = NoResult

C8_Witness ==
    /\ pc = "done"
    /\ decoded.set
    /\ decoded.timescale = W0
    /\ decoded.version = 1
    /\ decoded.duration # W0
    /\ Len(file) >= 48

\* C9: find_atom's cursor only moves forward from one header to the next,
\* so no header is read twice, and a non-matching box whose size is smaller
\* than its header or points past the end of the file ends the scan as
\* "not found".
SmallMismatch ==
    /\ Scanning
    /\ HeaderComplete(8)
    /\ SizeField # Wide(1)
    /\ TypeField # Target

PastEnd(size) == LessW(Wide(Len(file)), AddW(pos, size))

BadBox ==
    \/ SmallMismatch /\ (LessW(SizeField, Wide(8)) \/ PastEnd(SizeField))
    \/ LargeMismatch /\ (LessW(LargeSizeField, Wide(16)) \/ PastEnd(LargeSizeField))

ScanEndsNotFound ==
    \/ pc' = "done"
    \/ pc' = pc /\ FindAtomPass(file, pos', eofFlag', Target, longBits).out = "notfound"

C9_BadBoxEndsScan ==
    [][Scanning =>
         /\ (pc' = pc => LessW(pos, pos'))
         /\ (BadBox => ScanEndsNotFound)]_vars

(***************************************************************************)
(* The traversal's totals, counted over the tree independently of the      *)
(* walk.                                                                   *)
(***************************************************************************)
Finished == lastStep # "idle" /\ stack = <<>>

\* A name whose last four characters are ".mp4" in any case.
EndsInMp4(name) ==
    /\ Len(name) >= 4
    /\ Lower(name[Len(name) - 3]) = "."
    /\ Lower(name[Len(name) - 2]) = "m"
    /\ Lower(name[Len(name) - 1]) = "p"
    /\ name[Len(name)] = "4"

Extracted(en) == get_mp4_duration(en.bytes, en.canOpen, longBits, 0).result

\* The regular *.mp4 files directly in directory p (those stat succeeds
\* on) that extraction finds a duration in.
FoundIn(p) ==
    {en \in tree[p].entries :
        en.statOk /\ en.kind = "reg" /\ EndsInMp4(en.name) /\ Extracted(en).found}

RECURSIVE SumSeconds(_)

SumSeconds(S) ==
    IF S = {}
    THEN <<0, 1>>
    ELSE LET en == CHOOSE x \in S : TRUE
         IN  AddQ(Seconds(Extracted(en)), SumSeconds(S \ {en}))

RECURSIVE SumCounts(_)

SumCounts(P) ==
    IF P = {}
    THEN 0
    ELSE LET p == CHOOSE x \in P : TRUE
         IN  Cardinality(FoundIn(p)) + SumCounts(P \ {p})

RECURSIVE SumFolders(_)

SumFolders(P) ==
    IF P = {}
    THEN <<0, 1>>
    ELSE LET p == CHOOSE x \in P : TRUE
         IN  AddQ(SumSeconds(FoundIn(p)), SumFolders(P \ {p}))

\* No entry stat fails on, no directory opendir fails on.
AllReadable ==
    \A p \in DOMAIN tree : tree[p].canOpen /\ \A en \in tree[p].entries : en.statOk

\* The directories the walk gets into: opendir succeeds on them and on
\* every directory above them.
Visited == {p \in DOMAIN tree : \A k \in 1..Len(p) : tree[SubSeq(p, 1, k)].canOpen}

\* C5: after scan_directory returns for a tree with all entries readable,
\* total_files is the number of regular *.mp4 files (any case) extraction
\* finds a duration in, total_folders_with_mp4 the number of directories
\* directly holding one, total_duration_seconds the sum of their seconds.
C5_TotalsMatchTree ==
    (Finished /\ AllReadable) =>
        /\ stats.total_files = SumCounts(DOMAIN tree)
        /\ stats.total_folders_with_mp4 = Cardinality({p \in DOMAIN tree : FoundIn(p) # {}})
        /\ stats.total_duration_seconds = SumFolders(DOMAIN tree)

\* root/{a.mp4 10 s, b.txt, sub/{c.mp4 5 s, d.mp4 not found}}: 2 files, 2 folders, 15 s.
C5_Witness ==
    /\ Finished
    /\ AllReadable
    /\ tree = TreeA
    /\ stats = [total_files |-> 2, total_folders_with_mp4 |-> 2, total_duration_seconds |-> <<15, 1>>]

Below(p, c) == Len(p) < Len(c) /\ SubSeq(c, 1, Len(p)) = p

\* C6: in verbose mode the summary events come in pre-order: the event of a
\* directory is emitted before the event of any directory below it.
C6_SummariesInPreOrder ==
    \A i, j \in 1..Len(events) : Below(events[i].path, events[j].path) => i < j

\* C6 as amended: the summary events come in post-order, the event of a
\* directory after the events of the directories below it; no directory has
\* two; and when the scan returns, in verbose mode the directories with an
\* event are the visited ones directly holding a found file, each with the
\* sum of its own files' seconds, and without verbose mode there is none.
C6_SummariesInPostOrder ==
    /\ \A i, j \in 1..Len(events) : Below(events[i].path, events[j].path) => j < i
    /\ \A i, j \in 1..Len(events) : events[i].path = events[j].path => i = j
    /\ Finished =>
        IF verbose
        THEN /\ {events[i].path : i \in 1..Len(events)} = {p \in Visited : FoundIn(p) # {}}
             /\ \A i \in 1..Len(events) :
                    events[i].local_duration = SumSeconds(FoundIn(events[i].path))
        ELSE events = <<>>

C6_Witness ==
    /\ Finished
    /\ verbose
    /\ \E i, j \in 1..Len(events) : Below(events[i].path, events[j].path)
    /\ \E p \in Visited : FoundIn(p) = {}

\* C10: in every step of a traversal the three Stats fields do not
\* decrease; they change only in scan_directory's own statements, not in
\* the call of get_mp4_duration; a file extraction does not find a duration
\* in, and a directory that cannot be opened, leave them unchanged.
C10_StatsMonotone ==
    [][/\ stats'.total_files >= stats.total_files
       /\ stats'.total_folders_with_mp4 >= stats.total_folders_with_mp4
       /\ LeqQ(stats.total_duration_seconds, stats'.total_duration_seconds)
       /\ stats' # stats => lastStep' \in {"aggregate", "closedir"}
       /\ (lastStep' = "aggregate" /\ ~Top.d.found) => stats' = stats
       /\ lastStep' = "opendir_failed" => stats' = stats]_vars

C10_Witness ==
    /\ lastStep = "aggregate"
    /\ ~Top.d.found
    /\ stats.total_files >= 1
    /\ \E p \in DOMAIN tree : ~tree[p].canOpen

====
